---- MODULE Spec2Model ----
(***************************************************************************)
(* State-machine model of the task board's request handlers               *)
(* (joseyapor21/user-management): the projects route (list, create,       *)
(* update, archive, permanent delete), the reorder and restore routes,    *)
(* attachments and comments, the recurring-task generator, the            *)
(* department-columns route, the template-apply route, the schedule       *)
(* routes, the users and signup routes and the department-admins route.   *)
(*                                                                         *)
(* A document of the store is a record whose DOMAIN is the set of fields  *)
(* the document has ($unset removes a field from the DOMAIN); a request   *)
(* body is a record whose DOMAIN is the set of keys the JSON body has (a  *)
(* key that is missing reads as undefined in the handler).  Every handler  *)
(* is one action: the store calls of one request are taken together.      *)
(***************************************************************************)
EXTENDS Integers, Sequences, FiniteSets, TLC

\* ------------------------------------------------------------------ bounds
MaxTasks == 3        \* documents the projects collection may ever hold
MaxRequests == 3     \* requests served in one behaviour
MaxOids == 2         \* attachment and comment ids handed out in one behaviour
MaxTicks == 1        \* days the clock advances in one behaviour
MaxDate == 90        \* the dates handed to calculateNextDueDate: 0..MaxDate
MaxFieldUpdates == 2 \* update requests served in one behaviour of SpecUpdate
MaxInflight == 2     \* account creations under way at the same time

VARIABLES
    users,        \* v5users: user id -> [isSuperUser, email]
    departments,  \* v5departments: department id -> [adminIds, memberIds], two arrays
    columns,      \* v5department_columns: department id -> column list
    tasks,        \* v5projects: task id -> document
    nextId,       \* next _id insertOne hands out in v5projects
    nextOid,      \* next attachment / comment id
    now,          \* the server clock, a day number
    served,       \* number of requests served so far
    resp,         \* the last request and its response
    schedules,    \* v5schedules: the documents [date, slots, createdBy, lastModifiedBy], in insertion order
    config,       \* v5config: key -> [value, updatedBy]
    invites,      \* v5invites: token -> [email, createdBy, expiresAt, used]
    inflight,     \* account creations between their lookup and their insert
    nextUid,      \* number of the next _id insertOne hands out in v5users
    calc          \* a call of calculateNextDueDate: its arguments and result

vars == <<users, departments, columns, tasks, nextId, nextOid, now, served, resp,
          schedules, config, invites, inflight, nextUid, calc>>

\* ------------------------------------------------------------ JSON values
Null == "<null>"     \* JSON null in a string-valued field
NullNum == -1        \* JSON null in a number- or date-valued field
NoToken == [none |-> TRUE]   \* a request without a valid bearer token

Has(r, f) == f \in DOMAIN r
Pick(r, fs) == [f \in (fs \cap DOMAIN r) |-> r[f]]
\* x || d for a string-valued key: undefined, null and "" are falsy
OrStr(r, f, d) == IF Has(r, f) /\ r[f] \notin {"", Null} THEN r[f] ELSE d
\* x || d for a number-valued key: undefined, null and 0 are falsy
OrNum(r, f, d) == IF Has(r, f) /\ r[f] \notin {0, NullNum} THEN r[f] ELSE d
\* x || d for a date-valued key: undefined and null are falsy
OrDate(r, f, d) == IF Has(r, f) /\ r[f] # NullNum THEN r[f] ELSE d
\* x || d for an array-valued key: only undefined is falsy
OrArr(r, f, d) == IF Has(r, f) THEN r[f] ELSE d

PaddedTitle == " B"
PaddedEmail == " new@x.org"
\* String.prototype.trim on the titles, descriptions and emails the model sends
Trim(s) == IF s = PaddedTitle THEN "B"
           ELSE IF s = PaddedEmail THEN "new@x.org" ELSE s

MixedCaseEmail == "New@x.org"
\* String.prototype.toLowerCase on the emails the model sends
toLowerCase(s) == IF s = MixedCaseEmail THEN "new@x.org" ELSE s
\* an array holds the value: Array.prototype.includes, and the match of a
\* query {field: value} against an array-valued field
Includes(arr, x) == \E k \in 1..Len(arr) : arr[k] = x
\* x || false for a boolean-valued key
OrBool(r, f) == IF Has(r, f) THEN r[f] ELSE FALSE

Max(S) == CHOOSE x \in S : \A y \in S : y <= x
Min(S) == CHOOSE x \in S : \A y \in S : x <= y

\* ------------------------------------------------------------- identities
UserIds == {"root", "adm", "mem", "out"}
DeptIds == {"d1", "d2"}

\* the payload the login route signs: the user id (email and expiry are not
\* read by any handler); there is no isSuperUser claim in it
jwtSign(u) == [_id |-> u]
Tokens == {jwtSign(u) : u \in UserIds}

\* getUserFromRequest of the projects, reorder, restore, comments and
\* attachments routes: the token's user, looked up in v5users
Authenticated(tok) == tok # NoToken /\ tok._id \in DOMAIN users
getUserFromRequest(tok) ==
    [userId |-> tok._id, isSuperUser |-> users[tok._id].isSuperUser]

canManageDepartment(userId, isSuperUser, departmentId) ==
    \/ isSuperUser
    \/ /\ departmentId \in DOMAIN departments
       /\ Includes(departments[departmentId].adminIds, userId)

getUserDepartments(userId, isSuperUser) ==
    IF isSuperUser THEN DOMAIN departments
    ELSE {d \in DOMAIN departments :
            \/ Includes(departments[d].adminIds, userId)
            \/ Includes(departments[d].memberIds, userId)}

\* -------------------------------------------------------------- responses
\* the last request (operation, caller, target id, body) and its response
\* (status code, ids of the documents the response lists)
Response(op, tok, id, body, code, data) ==
    [op |-> op, caller |-> IF tok = NoToken THEN Null ELSE tok._id,
     id |-> id, body |-> body, code |-> code, data |-> data]

Reply(op, tok, id, body, code) ==
    /\ resp' = Response(op, tok, id, body, code, {})
    /\ served' = served + 1

\* ------------------------------------------------------------ activity log
LogEntry(userId, action) == [userId |-> userId, action |-> action]

\* ------------------------------------------------- projects route: create
\* the highest order among the tasks of a department and status
lastOrder(departmentId, status) ==
    LET S == {tasks[i].order : i \in {j \in DOMAIN tasks :
                 /\ tasks[j].departmentId = departmentId
                 /\ tasks[j].status = status}}
    IN  IF S = {} THEN 0 ELSE Max(S)

newProject(userId, body, order) ==
    [departmentId |-> body.departmentId,
     title |-> Trim(body.title),
     description |-> Trim(OrStr(body, "description", "")),
     status |-> OrStr(body, "status", "backlog"),
     priority |-> OrStr(body, "priority", "medium"),
     assigneeId |-> OrStr(body, "assigneeId", Null),
     assigneeIds |-> OrArr(body, "assigneeIds", {}),
     createdBy |-> userId,
     dueDate |-> OrDate(body, "dueDate", NullNum),
     labels |-> OrArr(body, "labels", {}),
     subtasks |-> OrArr(body, "subtasks", <<>>),
     attachments |-> <<>>,
     comments |-> <<>>,
     activityLog |-> <<LogEntry(userId, "created")>>,
     estimatedHours |-> OrNum(body, "estimatedHours", NullNum),
     loggedHours |-> 0,
     blockedBy |-> {},
     order |-> order,
     createdAt |-> now,
     updatedAt |-> now]

Frame == UNCHANGED <<users, departments, columns, now, schedules, config,
                     invites, inflight, nextUid, calc>>

Create(tok, body) ==
    /\ served < MaxRequests
    /\ Frame /\ UNCHANGED nextOid
    /\ IF ~Authenticated(tok)
       THEN Reply("create", tok, 0, body, 401) /\ UNCHANGED <<tasks, nextId>>
       ELSE LET u == getUserFromRequest(tok) IN
            IF ~Has(body, "departmentId") \/ OrStr(body, "title", "") = ""
            THEN Reply("create", tok, 0, body, 400) /\ UNCHANGED <<tasks, nextId>>
            ELSE IF ~canManageDepartment(u.userId, u.isSuperUser, body.departmentId)
            THEN Reply("create", tok, 0, body, 403) /\ UNCHANGED <<tasks, nextId>>
            ELSE /\ nextId <= MaxTasks
                 /\ LET st == OrStr(body, "status", "backlog")
                        order == lastOrder(body.departmentId, st) + 1
                    IN  tasks' = (nextId :> newProject(u.userId, body, order)) @@ tasks
                 /\ nextId' = nextId + 1
                 /\ Reply("create", tok, nextId, body, 200)

\* ------------------------------------------------- projects route: update
isAssigneeOf(t, userId) == t.assigneeId = userId \/ userId \in t.assigneeIds

\* the fields "if (canManage)" copies into updateData
adminUpdateData(t, body) ==
    (IF Has(body, "title") /\ body.title # t.title
        THEN [title |-> Trim(body.title)] ELSE <<>>)
    @@ (IF Has(body, "description")
        THEN [description |-> Trim(body.description)] ELSE <<>>)
    @@ (IF Has(body, "priority") /\ body.priority # t.priority
        THEN [priority |-> body.priority] ELSE <<>>)
    @@ (IF Has(body, "assigneeId") /\ body.assigneeId # t.assigneeId
        THEN [assigneeId |-> body.assigneeId] ELSE <<>>)
    @@ Pick(body, {"assigneeIds", "dueDate", "labels", "subtasks",
                   "estimatedHours", "blockedBy"})

\* the fields "if (isAssignee)" copies into updateData
assigneeUpdateData(body) == Pick(body, {"subtasks", "loggedHours"})

statusUpdateData(t, body) ==
    IF Has(body, "status") /\ body.status # t.status
    THEN [status |-> body.status] ELSE <<>>

\* mutant: the admin fields are copied without looking at canManage
updateData_AdminFieldsForAll(t, body, canManage, isAssignee) ==
    statusUpdateData(t, body)
    @@ (IF isAssignee THEN assigneeUpdateData(body) ELSE <<>>)
    @@ adminUpdateData(t, body)
    @@ [updatedAt |-> now]

updateData(t, body, canManage, isAssignee) ==
    statusUpdateData(t, body)
    @@ (IF isAssignee THEN assigneeUpdateData(body) ELSE <<>>)
    @@ (IF canManage THEN adminUpdateData(t, body) ELSE <<>>)
    @@ [updatedAt |-> now]

activityEntries(t, body, userId, canManage) ==
    (IF canManage /\ Has(body, "title") /\ body.title # t.title
        THEN <<LogEntry(userId, "updated")>> ELSE <<>>)
    \o (IF canManage /\ Has(body, "priority") /\ body.priority # t.priority
        THEN <<LogEntry(userId, "updated")>> ELSE <<>>)
    \o (IF canManage /\ Has(body, "assigneeId") /\ body.assigneeId # t.assigneeId
        THEN <<LogEntry(userId, "assigned")>> ELSE <<>>)
    \o (IF Has(body, "status") /\ body.status # t.status
        THEN <<LogEntry(userId, "moved")>> ELSE <<>>)

\* mutant: the log entries are written with $set
SetAndPush_ReplaceLog(t, set, entries) ==
    [activityLog |-> entries] @@ set @@ t

\* updateOne with $set fields and $push log entries
SetAndPush(t, set, entries) ==
    [activityLog |-> t.activityLog \o entries] @@ set @@ t

Update(tok, id, body) ==
    /\ served < MaxRequests
    /\ Frame /\ UNCHANGED <<nextId, nextOid>>
    /\ IF ~Authenticated(tok)
       THEN Reply("update", tok, id, body, 401) /\ UNCHANGED tasks
       ELSE LET u == getUserFromRequest(tok) IN
            IF id = 0
            THEN Reply("update", tok, id, body, 400) /\ UNCHANGED tasks
            ELSE IF id \notin DOMAIN tasks
            THEN Reply("update", tok, id, body, 404) /\ UNCHANGED tasks
            ELSE LET t == tasks[id]
                     canManage == canManageDepartment(u.userId, u.isSuperUser, t.departmentId)
                     isAssignee == isAssigneeOf(t, u.userId)
                 IN  IF ~canManage /\ ~isAssignee
                     THEN Reply("update", tok, id, body, 403) /\ UNCHANGED tasks
                     ELSE /\ tasks' = [tasks EXCEPT ![id] =
                                SetAndPush(t, updateData(t, body, canManage, isAssignee),
                                           activityEntries(t, body, u.userId, canManage))]
                          /\ Reply("update", tok, id, body, 200)

\* -------------------------------------------------- reorder route: PUT
reorderUpdateData(body) ==
    (IF Has(body, "newStatus") THEN [status |-> body.newStatus] ELSE <<>>)
    @@ (IF Has(body, "newOrder") THEN [order |-> body.newOrder] ELSE <<>>)
    @@ [updatedAt |-> now]

Reorder(tok, id, body) ==
    /\ served < MaxRequests
    /\ Frame /\ UNCHANGED <<nextId, nextOid>>
    /\ IF ~Authenticated(tok)
       THEN Reply("reorder", tok, id, body, 401) /\ UNCHANGED tasks
       ELSE LET u == getUserFromRequest(tok) IN
            IF id = 0
            THEN Reply("reorder", tok, id, body, 400) /\ UNCHANGED tasks
            ELSE IF id \notin DOMAIN tasks
            THEN Reply("reorder", tok, id, body, 404) /\ UNCHANGED tasks
            ELSE LET t == tasks[id]
                     canManage == canManageDepartment(u.userId, u.isSuperUser, t.departmentId)
                     isAssignee == t.assigneeId = u.userId
                 IN  IF ~canManage /\ ~isAssignee
                     THEN Reply("reorder", tok, id, body, 403) /\ UNCHANGED tasks
                     ELSE /\ tasks' = [tasks EXCEPT ![id] = reorderUpdateData(body) @@ t]
                          /\ Reply("reorder", tok, id, body, 200)

\* ----------------------------- projects route: DELETE (archive / permanent)
archiveOperation(t, userId) ==
    SetAndPush(t, [status |-> "archived", previousStatus |-> t.status,
                   archivedAt |-> now, archivedBy |-> userId, updatedAt |-> now],
               <<LogEntry(userId, "archived")>>)

\* deleteOne: the collection without the document
deleteOne(id) == [i \in DOMAIN tasks \ {id} |-> tasks[i]]

Delete(tok, id, permanent) ==
    /\ served < MaxRequests
    /\ Frame /\ UNCHANGED <<nextId, nextOid>>
    /\ LET op == IF permanent THEN "permanentDelete" ELSE "archive" IN
       IF ~Authenticated(tok)
       THEN Reply(op, tok, id, [permanent |-> permanent], 401) /\ UNCHANGED tasks
       ELSE LET u == getUserFromRequest(tok) IN
            IF id = 0
            THEN Reply(op, tok, id, [permanent |-> permanent], 400) /\ UNCHANGED tasks
            ELSE IF id \notin DOMAIN tasks
            THEN Reply(op, tok, id, [permanent |-> permanent], 404) /\ UNCHANGED tasks
            ELSE IF ~canManageDepartment(u.userId, u.isSuperUser, tasks[id].departmentId)
            THEN Reply(op, tok, id, [permanent |-> permanent], 403) /\ UNCHANGED tasks
            ELSE IF permanent
            THEN tasks' = deleteOne(id) /\ Reply(op, tok, id, [permanent |-> permanent], 200)
            ELSE /\ tasks' = [tasks EXCEPT ![id] = archiveOperation(tasks[id], u.userId)]
                 /\ Reply(op, tok, id, [permanent |-> permanent], 200)

\* ------------------------------------------------- restore route: POST
restoreToStatus(t) == OrStr(t, "previousStatus", "backlog")

\* $set status, $unset the archive fields, $push the log entry
restoreOperation(t, userId) ==
    LET set == SetAndPush(t, [status |-> restoreToStatus(t), updatedAt |-> now],
                          <<LogEntry(userId, "restored")>>)
    IN  [f \in DOMAIN set \ {"previousStatus", "archivedAt", "archivedBy"} |-> set[f]]

Restore(tok, id) ==
    /\ served < MaxRequests
    /\ Frame /\ UNCHANGED <<nextId, nextOid>>
    /\ IF ~Authenticated(tok)
       THEN Reply("restore", tok, id, <<>>, 401) /\ UNCHANGED tasks
       ELSE LET u == getUserFromRequest(tok) IN
            IF id = 0
            THEN Reply("restore", tok, id, <<>>, 400) /\ UNCHANGED tasks
            ELSE IF id \notin DOMAIN tasks
            THEN Reply("restore", tok, id, <<>>, 404) /\ UNCHANGED tasks
            ELSE IF tasks[id].status # "archived"
            THEN Reply("restore", tok, id, <<>>, 400) /\ UNCHANGED tasks
            ELSE IF ~canManageDepartment(u.userId, u.isSuperUser, tasks[id].departmentId)
            THEN Reply("restore", tok, id, <<>>, 403) /\ UNCHANGED tasks
            ELSE /\ tasks' = [tasks EXCEPT ![id] = restoreOperation(tasks[id], u.userId)]
                 /\ Reply("restore", tok, id, <<>>, 200)

\* --------------------------------------------------- projects route: GET
listQuery(userId, params) ==
    {i \in DOMAIN tasks :
        /\ IF Has(params, "departmentId")
           THEN tasks[i].departmentId = params.departmentId
           ELSE IF params.assignedToMe
           THEN tasks[i].assigneeId = userId
           ELSE tasks[i].departmentId \in
                    getUserDepartments(userId, users[userId].isSuperUser)
        /\ IF params.archived
           THEN tasks[i].status = "archived"
           ELSE tasks[i].status # "archived"}

List(tok, params) ==
    /\ served < MaxRequests
    /\ Frame /\ UNCHANGED <<tasks, nextId, nextOid>>
    /\ IF ~Authenticated(tok)
       THEN Reply("list", tok, 0, params, 401)
       ELSE LET u == getUserFromRequest(tok)
                accessibleDepts == getUserDepartments(u.userId, u.isSuperUser)
            IN  IF Has(params, "departmentId") /\ params.departmentId \notin accessibleDepts
                THEN Reply("list", tok, 0, params, 403)
                ELSE /\ resp' = Response("list", tok, 0, params, 200, listQuery(u.userId, params))
                     /\ served' = served + 1

\* ------------------------------------------------------ attachments route
AddAttachment(tok, id, body) ==
    /\ served < MaxRequests
    /\ Frame /\ UNCHANGED nextId
    /\ IF ~Authenticated(tok)
       THEN Reply("addAttachment", tok, id, body, 401) /\ UNCHANGED <<tasks, nextOid>>
       ELSE IF OrStr(body, "name", "") = "" \/ OrStr(body, "url", "") = ""
       THEN Reply("addAttachment", tok, id, body, 400) /\ UNCHANGED <<tasks, nextOid>>
       ELSE IF id \notin DOMAIN tasks
       THEN Reply("addAttachment", tok, id, body, 404) /\ UNCHANGED <<tasks, nextOid>>
       ELSE /\ nextOid <= MaxOids
            /\ LET attachment == [id |-> nextOid, name |-> body.name,
                                  uploadedBy |-> tok._id]
               IN  tasks' = [tasks EXCEPT ![id] =
                       [attachments |-> Append(@.attachments, attachment),
                        updatedAt |-> now] @@ @]
            /\ nextOid' = nextOid + 1
            /\ Reply("addAttachment", tok, id, body, 200)

\* $pull: the array without the elements that carry the id
Pull(arr, elemId) == SelectSeq(arr, LAMBDA e : e.id # elemId)

RemoveAttachment(tok, id, attachmentId) ==
    /\ served < MaxRequests
    /\ Frame /\ UNCHANGED <<nextId, nextOid>>
    /\ IF ~Authenticated(tok)
       THEN Reply("removeAttachment", tok, id, [attachmentId |-> attachmentId], 401) /\ UNCHANGED tasks
       ELSE IF attachmentId = 0
       THEN Reply("removeAttachment", tok, id, [attachmentId |-> attachmentId], 400) /\ UNCHANGED tasks
       ELSE /\ tasks' = IF id \in DOMAIN tasks
                        THEN [tasks EXCEPT ![id] =
                                [attachments |-> Pull(@.attachments, attachmentId),
                                 updatedAt |-> now] @@ @]
                        ELSE tasks
            /\ Reply("removeAttachment", tok, id, [attachmentId |-> attachmentId], 200)

\* --------------------------------------------------------- comments route
hasProjectAccess(userId, isSuperUser, projectId) ==
    /\ projectId \in DOMAIN tasks
    /\ \/ isSuperUser
       \/ tasks[projectId].assigneeId = userId
       \/ LET d == tasks[projectId].departmentId IN
          /\ d \in DOMAIN departments
          /\ \/ Includes(departments[d].adminIds, userId)
             \/ Includes(departments[d].memberIds, userId)

AddComment(tok, id, text) ==
    /\ served < MaxRequests
    /\ Frame /\ UNCHANGED nextId
    /\ IF ~Authenticated(tok)
       THEN Reply("addComment", tok, id, [text |-> text], 401) /\ UNCHANGED <<tasks, nextOid>>
       ELSE LET u == getUserFromRequest(tok) IN
            IF Trim(text) = ""
            THEN Reply("addComment", tok, id, [text |-> text], 400) /\ UNCHANGED <<tasks, nextOid>>
            ELSE IF ~hasProjectAccess(u.userId, u.isSuperUser, id)
            THEN Reply("addComment", tok, id, [text |-> text], 403) /\ UNCHANGED <<tasks, nextOid>>
            ELSE /\ nextOid <= MaxOids
                 /\ LET newComment == [id |-> nextOid, userId |-> u.userId,
                                       text |-> Trim(text)]
                    IN  tasks' = [tasks EXCEPT ![id] =
                            [comments |-> Append(@.comments, newComment),
                             updatedAt |-> now] @@ @]
                 /\ nextOid' = nextOid + 1
                 /\ Reply("addComment", tok, id, [text |-> text], 200)

\* mutant: the delete asks nothing about the caller
canDeleteComment_Anyone(comment, u) == TRUE

\* "Only comment author or superuser can delete"
canDeleteComment(comment, u) == ~(comment.userId # u.userId /\ ~u.isSuperUser)

DeleteComment(tok, id, commentId) ==
    /\ served < MaxRequests
    /\ Frame /\ UNCHANGED <<nextId, nextOid>>
    /\ IF ~Authenticated(tok)
       THEN Reply("deleteComment", tok, id, [commentId |-> commentId], 401) /\ UNCHANGED tasks
       ELSE LET u == getUserFromRequest(tok) IN
            IF commentId = 0
            THEN Reply("deleteComment", tok, id, [commentId |-> commentId], 400) /\ UNCHANGED tasks
            ELSE IF id \notin DOMAIN tasks
            THEN Reply("deleteComment", tok, id, [commentId |-> commentId], 404) /\ UNCHANGED tasks
            ELSE IF \A k \in 1..Len(tasks[id].comments) :
                        tasks[id].comments[k].id # commentId
            THEN Reply("deleteComment", tok, id, [commentId |-> commentId], 404) /\ UNCHANGED tasks
            ELSE LET comment == tasks[id].comments[
                         Min({k \in 1..Len(tasks[id].comments) :
                                 tasks[id].comments[k].id = commentId})]
                 IN  IF ~canDeleteComment(comment, u)
                     THEN Reply("deleteComment", tok, id, [commentId |-> commentId], 403) /\ UNCHANGED tasks
                     ELSE /\ tasks' = [tasks EXCEPT ![id] =
                                 [comments |-> Pull(@.comments, commentId),
                                  updatedAt |-> now] @@ @]
                          /\ Reply("deleteComment", tok, id, [commentId |-> commentId], 200)

\* ------------------------------------------------------ the task board
\* the provisioned system: four users, two departments, and one task that
\* the admin of d1 created through the create handler
InitUsers == [u \in UserIds |-> [isSuperUser |-> (u = "root"), email |-> u \o "@x.org"]]
InitDepartments ==
    [d \in DeptIds |-> IF d = "d1"
                       THEN [adminIds |-> <<"adm">>, memberIds |-> <<"mem">>]
                       ELSE [adminIds |-> <<>>, memberIds |-> <<>>]]

SeedBodies ==
    {[departmentId |-> "d1", title |-> "A", assigneeId |-> "out"],
     [departmentId |-> "d1", title |-> "A", assigneeIds |-> {"out"}]}

InitStore ==
    /\ users = InitUsers
    /\ departments = InitDepartments
    /\ columns = <<>>
    /\ now = 0
    /\ nextOid = 1
    /\ served = 0
    /\ resp = Response("none", NoToken, 0, <<>>, 0, {})
    /\ schedules = <<>>
    /\ config = <<>>
    /\ invites = <<>>
    /\ inflight = {}
    /\ nextUid = 1

NoCalc == [date |-> 0, type |-> "none", result |-> NullNum, done |-> TRUE]

Init ==
    /\ InitStore
    /\ \E body \in SeedBodies : tasks = (1 :> newProject("adm", body, 1))
    /\ nextId = 2
    /\ calc = NoCalc

Callers == Tokens
TaskIdInputs == 1..2

CreateBodies ==
    {[departmentId |-> "d2", title |-> "A", status |-> "done", assigneeId |-> "mem"],
     [departmentId |-> "d1"]}
StatusBodies == {[status |-> s] : s \in {"done", "", "archived"}}
ReorderBodies == {[newStatus |-> "todo"], [newStatus |-> "", newOrder |-> -5]}
ListParams ==
    {[assignedToMe |-> a, archived |-> r] : a, r \in BOOLEAN}
    \cup {[departmentId |-> d, assignedToMe |-> FALSE, archived |-> FALSE] : d \in DeptIds}
AttachmentBodies == {[name |-> "f", url |-> "u"], [name |-> "f"]}
CommentTexts == {"hi", ""}

Next ==
    \/ \E tok \in Callers, body \in CreateBodies : Create(tok, body)
    \/ \E tok \in Callers, id \in TaskIdInputs, body \in StatusBodies : Update(tok, id, body)
    \/ \E tok \in Callers, id \in TaskIdInputs, body \in ReorderBodies : Reorder(tok, id, body)
    \/ \E tok \in Callers, id \in TaskIdInputs, permanent \in BOOLEAN : Delete(tok, id, permanent)
    \/ \E tok \in Callers, id \in TaskIdInputs : Restore(tok, id)
    \/ \E tok \in Callers, params \in ListParams : List(tok, params)
    \/ \E tok \in Callers, id \in TaskIdInputs, body \in AttachmentBodies : AddAttachment(tok, id, body)
    \/ \E tok \in Callers, id \in TaskIdInputs, a \in 1..MaxOids : RemoveAttachment(tok, id, a)
    \/ \E tok \in Callers, id \in TaskIdInputs, text \in CommentTexts : AddComment(tok, id, text)
    \/ \E tok \in Callers, id \in TaskIdInputs, c \in 1..MaxOids : DeleteComment(tok, id, c)

Spec == Init /\ [][Next]_vars

\* ------------------------------------ comments and attachments on their own
NextComments ==
    \/ \E tok \in Callers, id \in TaskIdInputs, body \in AttachmentBodies : AddAttachment(tok, id, body)
    \/ \E tok \in Callers, id \in TaskIdInputs, a \in 1..MaxOids : RemoveAttachment(tok, id, a)
    \/ \E tok \in Callers, id \in TaskIdInputs, text \in CommentTexts : AddComment(tok, id, text)
    \/ \E tok \in Callers, id \in TaskIdInputs, c \in 1..MaxOids : DeleteComment(tok, id, c)

SpecComments == Init /\ [][NextComments]_vars

\* ------------------------------- the handlers that write the activity log
NextLog ==
    \/ \E tok \in Callers, id \in TaskIdInputs, body \in StatusBodies : Update(tok, id, body)
    \/ \E tok \in Callers, id \in TaskIdInputs, body \in ReorderBodies : Reorder(tok, id, body)
    \/ \E tok \in Callers, id \in TaskIdInputs, permanent \in BOOLEAN : Delete(tok, id, permanent)
    \/ \E tok \in Callers, id \in TaskIdInputs : Restore(tok, id)

SpecLog == Init /\ [][NextLog]_vars

\* ------------------------------------------------ the update handler alone
\* bodies of one key, and bodies of a status together with one other key
SingleFieldBodies ==
    {[title |-> v] : v \in {"B", PaddedTitle}}
    \cup {[description |-> "d"]}
    \cup {[priority |-> "high"]}
    \cup {[assigneeId |-> "mem"]}
    \cup {[assigneeIds |-> {"mem"}]}
    \cup {[dueDate |-> 5]}
    \cup {[labels |-> {"bug"}]}
    \cup {[subtasks |-> <<[title |-> "s", completed |-> TRUE]>>]}
    \cup {[estimatedHours |-> 3]}
    \cup {[loggedHours |-> 2]}
    \cup {[blockedBy |-> {2}]}
UpdateBodies ==
    StatusBodies \cup SingleFieldBodies
    \cup {[status |-> "done"] @@ b : b \in SingleFieldBodies}

NextUpdate ==
    /\ served < MaxFieldUpdates
    /\ \E tok \in Callers, id \in TaskIdInputs, body \in UpdateBodies : Update(tok, id, body)

SpecUpdate == Init /\ [][NextUpdate]_vars

\* ------------------------------------------------- dates (JavaScript Date)
\* A date is the number of days since 2024-01-01; the server's time zone is
\* UTC, so the local fields setDate / setMonth work on are the UTC fields.
IsLeap(y) == (y % 4 = 0 /\ y % 100 # 0) \/ y % 400 = 0
DaysInMonth(y, m) ==
    IF m = 2 THEN (IF IsLeap(y) THEN 29 ELSE 28)
    ELSE IF m \in {4, 6, 9, 11} THEN 30 ELSE 31

\* days from 2024-01-01 to the first day of month m (1..12) of year y
RECURSIVE DaysBefore(_, _)
DaysBefore(y, m) ==
    IF y = 2024 /\ m = 1 THEN 0
    ELSE IF m = 1 THEN DaysBefore(y - 1, 12) + 31
    ELSE DaysBefore(y, m - 1) + DaysInMonth(y, m - 1)

\* the date with the given fields; a day past the end of the month runs
\* over into the following months, as Date does
MakeDate(y, m, d) == DaysBefore(y, m) + d - 1

\* the calendar fields of the date n days after the first of month m of y
RECURSIVE CivilFrom(_, _, _)
CivilFrom(y, m, n) ==
    IF n < DaysInMonth(y, m) THEN [y |-> y, m |-> m, d |-> n + 1]
    ELSE IF m = 12 THEN CivilFrom(y + 1, 1, n - 31)
    ELSE CivilFrom(y, m + 1, n - DaysInMonth(y, m))

\* the calendar fields of a date
Civil(n) == CivilFrom(2024, 1, n)

\* date.setDate(date.getDate() + k)
setDatePlus(n, k) == LET c == Civil(n) IN MakeDate(c.y, c.m, c.d + k)
\* date.setMonth(date.getMonth() + 1): the day of the month is kept
setMonthPlusOne(n) ==
    LET c == Civil(n) IN
    IF c.m = 12 THEN MakeDate(c.y + 1, 1, c.d) ELSE MakeDate(c.y, c.m + 1, c.d)

calculateNextDueDate(currentDueDate, recurrenceType) ==
    CASE recurrenceType = "daily" -> setDatePlus(currentDueDate, 1)
      [] recurrenceType = "weekly" -> setDatePlus(currentDueDate, 7)
      [] recurrenceType = "biweekly" -> setDatePlus(currentDueDate, 14)
      [] recurrenceType = "monthly" -> setMonthPlusOne(currentDueDate)
      [] OTHER -> currentDueDate

\* ------------------------------------------ recurring-task generator: POST
EndDateOf(rec) == IF Has(rec, "endDate") THEN rec.endDate ELSE NullNum

\* the find() filter: a recurrence type other than 'none', status 'done', and
\* an end date that is null or not before now
recurringTasks(db) ==
    {i \in DOMAIN db :
        /\ Has(db[i], "recurrence") /\ Has(db[i].recurrence, "type")
        /\ db[i].recurrence.type # "none"
        /\ db[i].status = "done"
        /\ (EndDateOf(db[i].recurrence) = NullNum \/ EndDateOf(db[i].recurrence) >= now)}

\* task.dueDate || now
dueDateOrNow(task) == IF task.dueDate = NullNum THEN now ELSE task.dueDate

\* mutant: the end date is never looked at
endDatePassed_Never(task, nextDueDate) == FALSE

\* "Check if end date has passed"
endDatePassed(task, nextDueDate) ==
    EndDateOf(task.recurrence) # NullNum /\ nextDueDate > EndDateOf(task.recurrence)

\* mutant: every instance goes to the top of the column
nextOrderIn_Zero(db, departmentId, status) == 0

\* max order of the department's 'todo' tasks, plus one; 0 when there is none
nextOrderIn(db, departmentId, status) ==
    LET S == {db[i].order : i \in {j \in DOMAIN db :
                 db[j].departmentId = departmentId /\ db[j].status = status}}
    IN  IF S = {} THEN 0 ELSE Max(S) + 1

\* mutant: the subtasks are copied with their completion marks
newTask_SubtasksAsTheyAre(task, originId, nextDueDate, nextOrder) ==
    [departmentId |-> task.departmentId,
     title |-> task.title,
     description |-> task.description,
     status |-> "todo",
     priority |-> task.priority,
     assigneeId |-> task.assigneeId,
     assigneeIds |-> task.assigneeIds,
     createdBy |-> task.createdBy,
     dueDate |-> nextDueDate,
     labels |-> task.labels,
     subtasks |-> task.subtasks,
     attachments |-> <<>>,
     comments |-> <<>>,
     activityLog |-> <<LogEntry("system", "created")>>,
     estimatedHours |-> task.estimatedHours,
     loggedHours |-> 0,
     blockedBy |-> task.blockedBy,
     recurrence |-> task.recurrence,
     parentRecurringId |-> originId,
     order |-> nextOrder,
     createdAt |-> now,
     updatedAt |-> now]

\* "Create new task instance"
newTask(task, originId, nextDueDate, nextOrder) ==
    [departmentId |-> task.departmentId,
     title |-> task.title,
     description |-> task.description,
     status |-> "todo",
     priority |-> task.priority,
     assigneeId |-> task.assigneeId,
     assigneeIds |-> task.assigneeIds,
     createdBy |-> task.createdBy,
     dueDate |-> nextDueDate,
     labels |-> task.labels,
     subtasks |-> [k \in 1..Len(task.subtasks) |->
                      [title |-> task.subtasks[k].title, completed |-> FALSE]],
     attachments |-> <<>>,
     comments |-> <<>>,
     activityLog |-> <<LogEntry("system", "created")>>,
     estimatedHours |-> task.estimatedHours,
     loggedHours |-> 0,
     blockedBy |-> task.blockedBy,
     recurrence |-> task.recurrence,
     parentRecurringId |-> originId,
     order |-> nextOrder,
     createdAt |-> now,
     updatedAt |-> now]

\* mutant: the stamp also takes the origin back to 'todo'
stampLastGenerated_ReopensOrigin(doc) ==
    [recurrence |-> [lastGenerated |-> now] @@ doc.recurrence,
     status |-> "todo", updatedAt |-> now] @@ doc

\* the origin after the stamp of recurrence.lastGenerated
stampLastGenerated(doc) ==
    [recurrence |-> [lastGenerated |-> now] @@ doc.recurrence,
     updatedAt |-> now] @@ doc

\* the for loop over the tasks found, in _id order; snapshot is the result
\* of the find(), db the collection as the loop has changed it so far
RECURSIVE generateLoop(_, _, _, _, _)
generateLoop(todo, snapshot, db, nid, created) ==
    IF todo = {} THEN [db |-> db, nid |-> nid, created |-> created]
    ELSE LET i == Min(todo)
             task == snapshot[i]
             nextDueDate == calculateNextDueDate(dueDateOrNow(task), task.recurrence.type)
         IN  IF endDatePassed(task, nextDueDate)
             THEN generateLoop(todo \ {i}, snapshot, db, nid, created)
             ELSE LET nextOrder == nextOrderIn(db, task.departmentId, "todo")
                      inserted == (nid :> newTask(task, i, nextDueDate, nextOrder)) @@ db
                      stamped == [inserted EXCEPT ![i] = stampLastGenerated(@)]
                  IN  generateLoop(todo \ {i}, snapshot, stamped, nid + 1,
                                   created \cup {nid})

ProcessRecurring(tok) ==
    /\ served < MaxRequests
    /\ Frame /\ UNCHANGED nextOid
    /\ IF tok = NoToken
       THEN Reply("processRecurring", tok, 0, <<>>, 401) /\ UNCHANGED <<tasks, nextId>>
       ELSE LET r == generateLoop(recurringTasks(tasks), tasks, tasks, nextId, {})
            IN  /\ r.nid <= MaxTasks + 1
                /\ tasks' = r.db
                /\ nextId' = r.nid
                /\ resp' = Response("processRecurring", tok, 0, <<>>, 200, r.created)
                /\ served' = served + 1

\* a day passes
Tick ==
    /\ now < MaxTicks
    /\ now' = now + 1
    /\ UNCHANGED <<users, departments, invites, inflight, nextUid, schedules, config, columns, tasks, nextId, nextOid, served, resp, calc>>

\* The create handler of this repository does not store the recurrence key
\* the client sends, so the recurring tasks the generator reads are documents
\* of the collection as it stands when the generator runs: one completed
\* task of d1 with a recurrence rule.
RecurrenceTypes == {"none", "daily", "weekly", "monthly", "yearly"}
SeedDueDates == {NullNum, 0, 30}
SeedEndDates == {NullNum, 5, 40}
recurringSeed(type, dueDate, endDate) ==
    [recurrence |-> [type |-> type, endDate |-> endDate]]
    @@ newProject("adm", [departmentId |-> "d1", title |-> "A", status |-> "done",
                          assigneeId |-> "out", dueDate |-> dueDate,
                          subtasks |-> <<[title |-> "s", completed |-> TRUE]>>], 1)

InitRecur ==
    /\ InitStore
    /\ \E type \in RecurrenceTypes, dueDate \in SeedDueDates, endDate \in SeedEndDates :
          tasks = (1 :> recurringSeed(type, dueDate, endDate))
    /\ nextId = 2
    /\ calc = NoCalc

NextRecur ==
    \/ \E tok \in {jwtSign("out"), NoToken} : ProcessRecurring(tok)
    \/ Tick
    \/ \E id \in 1..MaxTasks : Reorder(jwtSign("adm"), id, [newStatus |-> "done"])

SpecRecur == InitRecur /\ [][NextRecur]_vars

\* ------------------------------------------- calculateNextDueDate on its own
InitDate ==
    /\ InitStore
    /\ tasks = <<>>
    /\ nextId = 1
    /\ \E date \in 0..MaxDate, type \in RecurrenceTypes \cup {"biweekly"} :
          calc = [date |-> date, type |-> type, result |-> NullNum, done |-> FALSE]

Calculate ==
    /\ ~calc.done
    /\ calc' = [calc EXCEPT !.result = calculateNextDueDate(calc.date, calc.type),
                            !.done = TRUE]
    /\ UNCHANGED <<users, departments, invites, inflight, nextUid, schedules, config, columns, tasks, nextId, nextOid, now, served, resp>>

SpecDate == InitDate /\ [][Calculate]_vars

\* --------------------------------- department columns and template routes
\* getUserFromRequest of the columns, templates and template-apply routes
\* returns the decoded token itself; user.isSuperUser is the token's claim
tokenIsSuperUser(tok) == Has(tok, "isSuperUser") /\ tok.isSuperUser

\* !user.isSuperUser && !department.adminIds.includes(user._id)
notAuthorizedForColumns(tok, departmentId) ==
    ~tokenIsSuperUser(tok) /\ ~Includes(departments[departmentId].adminIds, tok._id)

validColumn(col) ==
    /\ Has(col, "id") /\ col.id # ""
    /\ Has(col, "name") /\ col.name # ""
    /\ Has(col, "order")

\* columns.sort((a, b) => a.order - b.order), a stable sort
RECURSIVE sortByOrder(_)
sortByOrder(cols) ==
    IF Len(cols) <= 1 THEN cols
    ELSE LET rest == sortByOrder(SubSeq(cols, 1, Len(cols) - 1))
             c == cols[Len(cols)]
             k == Cardinality({j \in 1..Len(rest) : rest[j].order <= c.order})
         IN  SubSeq(rest, 1, k) \o <<c>> \o SubSeq(rest, k + 1, Len(rest))

\* updateOne({departmentId}, {$set: {columns}}, {upsert: true})
upsertColumns(departmentId, cols) == (departmentId :> cols) @@ columns

ColumnsPut(tok, id, body) ==
    /\ served < MaxRequests
    /\ UNCHANGED <<users, departments, invites, inflight, nextUid, schedules, config, tasks, nextId, nextOid, now, calc>>
    /\ IF tok = NoToken
       THEN Reply("columnsPut", tok, id, body, 401) /\ UNCHANGED columns
       ELSE IF id \notin DOMAIN departments
       THEN Reply("columnsPut", tok, id, body, 404) /\ UNCHANGED columns
       ELSE IF notAuthorizedForColumns(tok, id)
       THEN Reply("columnsPut", tok, id, body, 403) /\ UNCHANGED columns
       ELSE IF ~Has(body, "columns") \/ Len(body.columns) = 0
       THEN Reply("columnsPut", tok, id, body, 400) /\ UNCHANGED columns
       ELSE IF \E k \in 1..Len(body.columns) : ~validColumn(body.columns[k])
       THEN Reply("columnsPut", tok, id, body, 400) /\ UNCHANGED columns
       ELSE /\ columns' = upsertColumns(id, sortByOrder(body.columns))
            /\ Reply("columnsPut", tok, id, body, 200)

ColumnsDelete(tok, id) ==
    /\ served < MaxRequests
    /\ UNCHANGED <<users, departments, invites, inflight, nextUid, schedules, config, tasks, nextId, nextOid, now, calc>>
    /\ IF tok = NoToken
       THEN Reply("columnsDelete", tok, id, <<>>, 401) /\ UNCHANGED columns
       ELSE IF id \notin DOMAIN departments
       THEN Reply("columnsDelete", tok, id, <<>>, 404) /\ UNCHANGED columns
       ELSE IF notAuthorizedForColumns(tok, id)
       THEN Reply("columnsDelete", tok, id, <<>>, 403) /\ UNCHANGED columns
       ELSE /\ columns' = [d \in DOMAIN columns \ {id} |-> columns[d]]
            /\ Reply("columnsDelete", tok, id, <<>>, 200)

Column(id, order) == [id |-> id, name |-> id, order |-> order]

\* two of the built-in templates: one with sample tasks, one without
BUILTIN_TEMPLATES ==
    [software_development |->
        [columns |-> <<Column("backlog", 0), Column("todo", 1), Column("in_progress", 2),
                       Column("review", 3), Column("done", 4)>>,
         sampleTasks |-> <<[title |-> "Set up project repository", priority |-> "high",
                            status |-> "backlog"],
                           [title |-> "Define project requirements", priority |-> "urgent",
                            status |-> "backlog"],
                           [title |-> "Design system architecture", priority |-> "high",
                            status |-> "todo"]>>],
     simple_kanban |->
        [columns |-> <<Column("todo", 0), Column("doing", 1), Column("done", 2)>>,
         sampleTasks |-> <<>>]]

sampleTaskDoc(departmentId, sampleTask, userId, nextOrder) ==
    [departmentId |-> departmentId,
     title |-> sampleTask.title,
     description |-> "",
     status |-> sampleTask.status,
     priority |-> sampleTask.priority,
     assigneeId |-> Null,
     assigneeIds |-> {},
     createdBy |-> userId,
     dueDate |-> NullNum,
     labels |-> {},
     subtasks |-> <<>>,
     attachments |-> <<>>,
     comments |-> <<>>,
     activityLog |-> <<LogEntry("system", "created")>>,
     order |-> nextOrder,
     createdAt |-> now,
     updatedAt |-> now]

\* the for loop over template.sampleTasks
RECURSIVE insertSampleTasks(_, _, _, _, _, _)
insertSampleTasks(samples, k, departmentId, userId, db, nid) ==
    IF k > Len(samples) THEN [db |-> db, nid |-> nid]
    ELSE LET nextOrder == nextOrderIn(db, departmentId, samples[k].status)
         IN  insertSampleTasks(samples, k + 1, departmentId, userId,
                 (nid :> sampleTaskDoc(departmentId, samples[k], userId, nextOrder)) @@ db,
                 nid + 1)

ApplyTemplate(tok, body) ==
    /\ served < MaxRequests
    /\ UNCHANGED <<users, departments, invites, inflight, nextUid, schedules, config, nextOid, now, calc>>
    /\ LET quiet == UNCHANGED <<columns, tasks, nextId>> IN
       IF tok = NoToken
       THEN Reply("applyTemplate", tok, 0, body, 401) /\ quiet
       ELSE IF ~Has(body, "templateId") \/ ~Has(body, "departmentId")
       THEN Reply("applyTemplate", tok, 0, body, 400) /\ quiet
       ELSE IF body.departmentId \notin DOMAIN departments
       THEN Reply("applyTemplate", tok, body.departmentId, body, 404) /\ quiet
       ELSE IF notAuthorizedForColumns(tok, body.departmentId)
       THEN Reply("applyTemplate", tok, body.departmentId, body, 403) /\ quiet
       ELSE IF body.templateId \notin DOMAIN BUILTIN_TEMPLATES
       THEN Reply("applyTemplate", tok, body.departmentId, body, 404) /\ quiet
       ELSE LET template == BUILTIN_TEMPLATES[body.templateId]
                samples == IF Has(body, "includeSampleTasks") /\ body.includeSampleTasks
                           THEN template.sampleTasks ELSE <<>>
                r == insertSampleTasks(samples, 1, body.departmentId, tok._id,
                                       tasks, nextId)
            IN  /\ r.nid <= MaxTasks + 1
                /\ columns' = upsertColumns(body.departmentId, template.columns)
                /\ tasks' = r.db
                /\ nextId' = r.nid
                /\ Reply("applyTemplate", tok, body.departmentId, body, 200)

ColumnDeptInputs == DeptIds \cup {"d3"}
ColumnBodies ==
    {[columns |-> <<Column("done", 1), Column("todo", 0)>>],
     [columns |-> <<Column("todo", 0), [id |-> "x"]>>],
     [columns |-> <<>>]}
TemplateBodies ==
    {[templateId |-> t, departmentId |-> d, includeSampleTasks |-> s] :
        t \in {"software_development", "simple_kanban", "unknown"},
        d \in ColumnDeptInputs, s \in BOOLEAN}
    \cup {[templateId |-> "simple_kanban"]}

InitColumns ==
    /\ InitStore
    /\ tasks = <<>>
    /\ nextId = 1
    /\ calc = NoCalc

NextColumns ==
    \/ \E tok \in Tokens \cup {NoToken}, id \in ColumnDeptInputs, body \in ColumnBodies :
          ColumnsPut(tok, id, body)
    \/ \E tok \in Tokens \cup {NoToken}, id \in ColumnDeptInputs : ColumnsDelete(tok, id)
    \/ \E tok \in Tokens \cup {NoToken}, body \in TemplateBodies : ApplyTemplate(tok, body)

SpecColumns == InitColumns /\ [][NextColumns]_vars

\* --------------------------------------------------------- schedule routes
\* the value of the scheduleAdmin configuration document, null without one
scheduleAdminId == IF "scheduleAdmin" \in DOMAIN config
                   THEN config["scheduleAdmin"].value ELSE Null

\* updateOne({key}, {$set: {key, value, updatedBy}}, {upsert: true})
upsertConfig(cfg, key, value, userId) ==
    [k \in DOMAIN cfg \cup {key} |->
        IF k = key THEN [value |-> value, updatedBy |-> userId] ELSE cfg[k]]

\* mutant: the user named is not looked up
SetScheduleAdmin_NoLookup(tok, body) ==
    /\ served < MaxRequests
    /\ UNCHANGED <<users, departments, invites, inflight, nextUid, columns, tasks, nextId, nextOid, now, calc, schedules>>
    /\ IF ~Authenticated(tok)
       THEN Reply("setScheduleAdmin", tok, 0, body, 401) /\ UNCHANGED config
       ELSE LET u == getUserFromRequest(tok)
                userId == OrStr(body, "userId", "") IN
            IF ~u.isSuperUser
            THEN Reply("setScheduleAdmin", tok, 0, body, 403) /\ UNCHANGED config
            ELSE /\ config' = upsertConfig(config, "scheduleAdmin",
                                 IF userId = "" THEN Null ELSE userId, u.userId)
                 /\ Reply("setScheduleAdmin", tok, 0, body, 200)

\* schedule-admin route: the superuser designates the schedule admin
SetScheduleAdmin(tok, body) ==
    /\ served < MaxRequests
    /\ UNCHANGED <<users, departments, invites, inflight, nextUid, columns, tasks, nextId, nextOid, now, calc, schedules>>
    /\ IF ~Authenticated(tok)
       THEN Reply("setScheduleAdmin", tok, 0, body, 401) /\ UNCHANGED config
       ELSE LET u == getUserFromRequest(tok)
                userId == OrStr(body, "userId", "") IN
            IF ~u.isSuperUser
            THEN Reply("setScheduleAdmin", tok, 0, body, 403) /\ UNCHANGED config
            ELSE IF userId # "" /\ userId \notin DOMAIN users
            THEN Reply("setScheduleAdmin", tok, 0, body, 404) /\ UNCHANGED config
            ELSE /\ config' = upsertConfig(config, "scheduleAdmin",
                                 IF userId = "" THEN Null ELSE userId, u.userId)
                 /\ Reply("setScheduleAdmin", tok, 0, body, 200)

\* mutant: department admins may edit the schedule too
canEditSchedule_DepartmentAdmins(userId, isSuperUser) ==
    \/ isSuperUser
    \/ scheduleAdminId = userId
    \/ \E d \in DOMAIN departments : Includes(departments[d].adminIds, userId)

\* schedules route: superuser, or the user the scheduleAdmin document names
canEditSchedule(userId, isSuperUser) ==
    IF isSuperUser THEN TRUE ELSE scheduleAdminId = userId

\* findOne({date}): the position of the first document of that date, 0 for null
findSchedule(coll, date) ==
    IF \E i \in 1..Len(coll) : coll[i].date = date
    THEN Min({i \in 1..Len(coll) : coll[i].date = date}) ELSE 0

\* updateOne({date}, {$set: {slots, lastModifiedBy}}): the first match only
updateSchedule(coll, body, userId) ==
    LET i == findSchedule(coll, body.date) IN
    IF i = 0 THEN coll
    ELSE [coll EXCEPT ![i] = [slots |-> body.slots, lastModifiedBy |-> userId] @@ @]

\* insertOne({date, slots, createdBy, lastModifiedBy})
insertSchedule(coll, body, userId) ==
    Append(coll, [date |-> body.date, slots |-> body.slots,
                  createdBy |-> userId, lastModifiedBy |-> userId])

SchedulePut(tok, body) ==
    /\ served < MaxRequests
    /\ UNCHANGED <<users, departments, invites, inflight, nextUid, columns, tasks, nextId, nextOid, now, calc, config>>
    /\ IF ~Authenticated(tok)
       THEN Reply("saveSchedule", tok, 0, body, 401) /\ UNCHANGED schedules
       ELSE LET u == getUserFromRequest(tok) IN
            IF ~canEditSchedule(u.userId, u.isSuperUser)
            THEN Reply("saveSchedule", tok, 0, body, 403) /\ UNCHANGED schedules
            ELSE IF OrStr(body, "date", "") = "" \/ ~Has(body, "slots")
            THEN Reply("saveSchedule", tok, 0, body, 400) /\ UNCHANGED schedules
            ELSE /\ schedules' = IF findSchedule(schedules, body.date) # 0
                                 THEN updateSchedule(schedules, body, u.userId)
                                 ELSE insertSchedule(schedules, body, u.userId)
                 /\ Reply("saveSchedule", tok, 0, body, 200)

\* schedule-configuration route: its own canEditSchedule reads only the
\* scheduleAdmin document; the handler adds the superuser
canEditScheduleConfig(userId) == scheduleAdminId = userId

ScheduleConfigPut(tok, body) ==
    /\ served < MaxRequests
    /\ UNCHANGED <<users, departments, invites, inflight, nextUid, columns, tasks, nextId, nextOid, now, calc, schedules>>
    /\ IF ~Authenticated(tok)
       THEN Reply("saveScheduleConfig", tok, 0, body, 401) /\ UNCHANGED config
       ELSE LET u == getUserFromRequest(tok)
                canEdit == canEditScheduleConfig(u.userId) IN
            IF ~canEdit /\ ~u.isSuperUser
            THEN Reply("saveScheduleConfig", tok, 0, body, 403) /\ UNCHANGED config
            ELSE LET withDepartments ==
                         IF Has(body, "departments")
                         THEN upsertConfig(config, "scheduleDepartments", body.departments, u.userId)
                         ELSE config
                     withPhases ==
                         IF Has(body, "phases")
                         THEN upsertConfig(withDepartments, "schedulePhases", body.phases, u.userId)
                         ELSE withDepartments
                 IN  /\ config' = withPhases
                     /\ Reply("saveScheduleConfig", tok, 0, body, 200)

\* the schedule of the week: requests of every kind of caller, with and
\* without a token
ScheduleAdminBodies == {[userId |-> "mem"], [userId |-> "adm"], [userId |-> ""], [userId |-> "gone"]}
ScheduleBodies ==
    {[date |-> "2024-01-07", slots |-> {"usher"}], [date |-> "2024-01-07", slots |-> {}],
     [date |-> "2024-01-14", slots |-> {"usher"}], [date |-> "2024-01-07"]}
ScheduleConfigBodies ==
    {[departments |-> {"ushers"}], [phases |-> {"opening"}],
     [departments |-> {"ushers"}, phases |-> {"opening"}]}

InitSchedule ==
    /\ InitStore
    /\ tasks = <<>>
    /\ nextId = 1
    /\ calc = NoCalc

NextSchedule ==
    \/ \E tok \in Tokens \cup {NoToken}, body \in ScheduleAdminBodies : SetScheduleAdmin(tok, body)
    \/ \E tok \in Tokens \cup {NoToken}, body \in ScheduleBodies : SchedulePut(tok, body)
    \/ \E tok \in Tokens \cup {NoToken}, body \in ScheduleConfigBodies : ScheduleConfigPut(tok, body)

SpecSchedule == InitSchedule /\ [][NextSchedule]_vars

\* ------------------------------------------------ users and signup routes
\* verifySuperUser of the users route: no token, a bad token and a token
\* whose user is gone all come back as {isSuperUser: false}
verifySuperUser(tok) ==
    IF tok = NoToken \/ tok._id \notin DOMAIN users
    THEN [isSuperUser |-> FALSE, userId |-> Null]
    ELSE [isSuperUser |-> users[tok._id].isSuperUser, userId |-> tok._id]

\* findOne({email})
findUserByEmail(email) == {u \in DOMAIN users : users[u].email = email}

\* the _id insertOne gives the next user document
newUserId == "n" \o ToString(nextUid)

\* a request that has passed its lookup and waits for its insert
freeSlot == Min((1..MaxInflight) \ {r.slot : r \in inflight})
Await(op, tok, body, email) ==
    /\ inflight' = inflight \cup
          {[slot |-> freeSlot, op |-> op, tok |-> tok, body |-> body, email |-> email]}
    /\ UNCHANGED <<served, resp>>

RoomForRequest ==
    /\ served + Cardinality(inflight) < MaxRequests
    /\ Cardinality(inflight) < MaxInflight

\* users route, POST up to the lookup of the email
CreateUserLookup(tok, body) ==
    /\ RoomForRequest
    /\ UNCHANGED <<users, departments, columns, tasks, nextId, nextOid, now, calc,
                   schedules, config, invites, nextUid>>
    /\ LET v == verifySuperUser(tok) IN
       IF ~v.isSuperUser
       THEN Reply("createUser", tok, 0, body, 403) /\ UNCHANGED inflight
       ELSE IF OrStr(body, "email", "") = "" \/ OrStr(body, "password", "") = ""
       THEN Reply("createUser", tok, 0, body, 400) /\ UNCHANGED inflight
       ELSE LET normalizedEmail == Trim(toLowerCase(body.email)) IN
            IF findUserByEmail(normalizedEmail) # {}
            THEN Reply("createUser", tok, 0, body, 400) /\ UNCHANGED inflight
            ELSE Await("createUser", tok, body, normalizedEmail)

\* users route, POST from insertOne on
CreateUserInsert(r) ==
    /\ r.op = "createUser"
    /\ UNCHANGED <<departments, columns, tasks, nextId, nextOid, now, calc,
                   schedules, config, invites>>
    /\ users' = (newUserId :> [isSuperUser |-> OrBool(r.body, "isSuperUser"),
                               email |-> r.email]) @@ users
    /\ nextUid' = nextUid + 1
    /\ inflight' = inflight \ {r}
    /\ Reply("createUser", r.tok, 0, r.body, 200)

\* signup route, POST up to the lookup of the email
SignupLookup(body) ==
    /\ RoomForRequest
    /\ UNCHANGED <<users, departments, columns, tasks, nextId, nextOid, now, calc,
                   schedules, config, invites, nextUid>>
    /\ IF OrStr(body, "token", "") = ""
       THEN Reply("signup", NoToken, 0, body, 400) /\ UNCHANGED inflight
       ELSE IF OrStr(body, "email", "") = "" \/ OrStr(body, "password", "") = ""
       THEN Reply("signup", NoToken, 0, body, 400) /\ UNCHANGED inflight
       ELSE IF body.token \notin DOMAIN invites
       THEN Reply("signup", NoToken, 0, body, 404) /\ UNCHANGED inflight
       ELSE LET invite == invites[body.token] IN
            IF invite.used
            THEN Reply("signup", NoToken, 0, body, 400) /\ UNCHANGED inflight
            ELSE IF invite.expiresAt < now
            THEN Reply("signup", NoToken, 0, body, 400) /\ UNCHANGED inflight
            ELSE IF invite.email # Null /\ toLowerCase(invite.email) # toLowerCase(body.email)
            THEN Reply("signup", NoToken, 0, body, 400) /\ UNCHANGED inflight
            ELSE IF findUserByEmail(toLowerCase(body.email)) # {}
            THEN Reply("signup", NoToken, 0, body, 400) /\ UNCHANGED inflight
            ELSE Await("signup", NoToken, body, toLowerCase(body.email))

\* signup route, POST from insertOne on: the user, then the invite marked used
SignupInsert(r) ==
    /\ r.op = "signup"
    /\ UNCHANGED <<departments, columns, tasks, nextId, nextOid, now, calc, schedules, config>>
    /\ users' = (newUserId :> [isSuperUser |-> FALSE, email |-> r.email]) @@ users
    /\ nextUid' = nextUid + 1
    /\ invites' = IF r.body.token \in DOMAIN invites
                  THEN [invites EXCEPT ![r.body.token] = [used |-> TRUE] @@ @]
                  ELSE invites
    /\ inflight' = inflight \ {r}
    /\ Reply("signup", NoToken, 0, r.body, 200)

\* the accounts of the board: the superuser's invites are out, one open to
\* any email and good for a week, one for a given email that ends today
InitInvites ==
    ("t1" :> [email |-> Null, createdBy |-> "root", expiresAt |-> 7, used |-> FALSE])
    @@ ("t0" :> [email |-> "new@x.org", createdBy |-> "root", expiresAt |-> 0, used |-> FALSE])

InitAccounts ==
    /\ users = InitUsers
    /\ departments = InitDepartments
    /\ columns = <<>>
    /\ now = 0
    /\ nextOid = 1
    /\ served = 0
    /\ resp = Response("none", NoToken, 0, <<>>, 0, {})
    /\ schedules = <<>>
    /\ config = <<>>
    /\ invites = InitInvites
    /\ inflight = {}
    /\ nextUid = 1
    /\ tasks = <<>>
    /\ nextId = 1
    /\ calc = NoCalc

CreateUserBodies ==
    {[email |-> MixedCaseEmail, password |-> "p"],
     [email |-> PaddedEmail, password |-> "p", isSuperUser |-> TRUE],
     [email |-> "adm@x.org", password |-> "p"],
     [email |-> "new@x.org"]}
SignupBodies ==
    {[token |-> "t1", email |-> MixedCaseEmail, password |-> "p"],
     [token |-> "t0", email |-> "new@x.org", password |-> "p"],
     [token |-> "t1", email |-> "mem@x.org", password |-> "p"],
     [token |-> "t1", email |-> "other@x.org", password |-> "p"],
     [token |-> "t0", email |-> "other@x.org", password |-> "p"],
     [token |-> "t9", email |-> "new@x.org", password |-> "p"],
     [token |-> "t1", email |-> "new@x.org"],
     [email |-> "new@x.org", password |-> "p"]}

NextAccounts ==
    \/ \E tok \in {jwtSign("root"), jwtSign("adm"), NoToken}, body \in CreateUserBodies :
          CreateUserLookup(tok, body)
    \/ \E r \in inflight : CreateUserInsert(r)
    \/ \E body \in SignupBodies : SignupLookup(body)
    \/ \E r \in inflight : SignupInsert(r)
    \/ Tick

SpecAccounts == InitAccounts /\ [][NextAccounts]_vars

\* the columns of a department: the configured ones, the defaults without
\* a columns document (columnsDoc?.columns || DEFAULT_COLUMNS)
DEFAULT_COLUMNS ==
    <<Column("backlog", 0), Column("todo", 1), Column("in_progress", 2), Column("done", 3)>>
columnsOfDepartment(d) == IF d \in DOMAIN columns THEN columns[d] ELSE DEFAULT_COLUMNS


\* ------------------------------------------------ department admins route
\* mutant: $push in the place of $addToSet
addToSet_Push(arr, x) == Append(arr, x)

\* $addToSet: the array, with the value appended unless the array holds it
addToSet(arr, x) == IF Includes(arr, x) THEN arr ELSE Append(arr, x)

\* $pull of a value: the array without every element equal to it
pullValue(arr, x) == SelectSeq(arr, LAMBDA e : e # x)

AddAdmin(tok, id, body) ==
    /\ served < MaxRequests
    /\ UNCHANGED <<users, columns, tasks, nextId, nextOid, now, calc, schedules, config,
                   invites, inflight, nextUid>>
    /\ IF ~Authenticated(tok)
       THEN Reply("addAdmin", tok, id, body, 401) /\ UNCHANGED departments
       ELSE LET u == getUserFromRequest(tok)
                userId == OrStr(body, "userId", "") IN
            IF ~canManageDepartment(u.userId, u.isSuperUser, id)
            THEN Reply("addAdmin", tok, id, body, 403) /\ UNCHANGED departments
            ELSE IF userId = ""
            THEN Reply("addAdmin", tok, id, body, 400) /\ UNCHANGED departments
            ELSE IF userId \notin DOMAIN users
            THEN Reply("addAdmin", tok, id, body, 404) /\ UNCHANGED departments
            ELSE /\ departments' =
                       IF id \in DOMAIN departments
                       THEN [departments EXCEPT ![id].adminIds = addToSet(@, userId)]
                       ELSE departments
                 /\ Reply("addAdmin", tok, id, body, 200)

RemoveAdmin(tok, id, userId) ==
    /\ served < MaxRequests
    /\ UNCHANGED <<users, columns, tasks, nextId, nextOid, now, calc, schedules, config,
                   invites, inflight, nextUid>>
    /\ IF ~Authenticated(tok)
       THEN Reply("removeAdmin", tok, id, [userId |-> userId], 401) /\ UNCHANGED departments
       ELSE LET u == getUserFromRequest(tok) IN
            IF ~canManageDepartment(u.userId, u.isSuperUser, id)
            THEN Reply("removeAdmin", tok, id, [userId |-> userId], 403) /\ UNCHANGED departments
            ELSE IF userId = ""
            THEN Reply("removeAdmin", tok, id, [userId |-> userId], 400) /\ UNCHANGED departments
            ELSE /\ departments' =
                       IF id \in DOMAIN departments
                       THEN [departments EXCEPT ![id].adminIds = pullValue(@, userId)]
                       ELSE departments
                 /\ Reply("removeAdmin", tok, id, [userId |-> userId], 200)

\* the departments as the superuser set them up, and the requests of every
\* kind of caller to add and to remove admins
AdminUserInputs == {"adm", "mem", "gone", ""}

InitAdmins ==
    /\ InitStore
    /\ tasks = <<>>
    /\ nextId = 1
    /\ calc = NoCalc

NextAdmins ==
    \/ \E tok \in Tokens \cup {NoToken}, id \in ColumnDeptInputs, u \in AdminUserInputs :
          AddAdmin(tok, id, [userId |-> u])
    \/ \E tok \in Tokens \cup {NoToken}, id \in ColumnDeptInputs, u \in AdminUserInputs :
          RemoveAdmin(tok, id, u)

SpecAdmins == InitAdmins /\ [][NextAdmins]_vars

\* ------------------------------------------- update requests side by side
\* projects route, PUT up to the permission check: the handler holds the
\* document findOne returned and what it concluded from it
UpdateRead(tok, id, body) ==
    /\ RoomForRequest
    /\ UNCHANGED <<users, departments, columns, now, schedules, config, invites,
                   nextUid, calc, nextId, nextOid, tasks>>
    /\ IF ~Authenticated(tok)
       THEN Reply("update", tok, id, body, 401) /\ UNCHANGED inflight
       ELSE LET u == getUserFromRequest(tok) IN
            IF id = 0
            THEN Reply("update", tok, id, body, 400) /\ UNCHANGED inflight
            ELSE IF id \notin DOMAIN tasks
            THEN Reply("update", tok, id, body, 404) /\ UNCHANGED inflight
            ELSE LET t == tasks[id]
                     canManage == canManageDepartment(u.userId, u.isSuperUser, t.departmentId)
                     isAssignee == isAssigneeOf(t, u.userId)
                 IN  IF ~canManage /\ ~isAssignee
                     THEN Reply("update", tok, id, body, 403) /\ UNCHANGED inflight
                     ELSE /\ inflight' = inflight \cup
                                {[slot |-> freeSlot, op |-> "update", tok |-> tok, id |-> id,
                                  body |-> body, existingProject |-> t,
                                  canManage |-> canManage, isAssignee |-> isAssignee]}
                          /\ UNCHANGED <<served, resp>>

\* projects route, PUT from updateOne on: the $set and $push built from the
\* document read earlier are applied to the document as it is now
UpdateWrite(r) ==
    /\ r.op = "update"
    /\ UNCHANGED <<users, departments, columns, now, schedules, config, invites,
                   nextUid, calc, nextId, nextOid>>
    /\ tasks' = IF r.id \in DOMAIN tasks
                THEN [tasks EXCEPT ![r.id] =
                        SetAndPush(@, updateData(r.existingProject, r.body,
                                                 r.canManage, r.isAssignee),
                                   activityEntries(r.existingProject, r.body,
                                                   r.tok._id, r.canManage))]
                ELSE tasks
    /\ inflight' = inflight \ {r}
    /\ Reply("update", r.tok, r.id, r.body, 200)

RaceBodies ==
    {[title |-> "A"], [title |-> "B"], [priority |-> "high"],
     [status |-> "done"], [status |-> "backlog"]}

NextRace ==
    \/ \E tok \in {jwtSign("adm"), jwtSign("mem"), NoToken}, id \in TaskIdInputs, body \in RaceBodies :
          UpdateRead(tok, id, body)
    \/ \E r \in inflight : UpdateWrite(r)
    \/ \E id \in TaskIdInputs, body \in ReorderBodies : Reorder(jwtSign("adm"), id, body)

SpecRace == Init /\ [][NextRace]_vars

\* ------------------------------------------------- users route: DELETE
\* updateMany({}, {$pull: {adminIds: id, memberIds: id}})
pullFromAllDepartments(id) ==
    [d \in DOMAIN departments |->
        [departments[d] EXCEPT !.adminIds = pullValue(@, id),
                               !.memberIds = pullValue(@, id)]]

\* deleteOne({_id}) on v5users
deleteUserDoc(id) == [u \in DOMAIN users \ {id} |-> users[u]]

DeleteUser(tok, id) ==
    /\ served < MaxRequests
    /\ UNCHANGED <<columns, now, schedules, config, invites, inflight, nextUid, calc,
                   tasks, nextId, nextOid>>
    /\ LET v == verifySuperUser(tok) IN
       IF ~v.isSuperUser
       THEN Reply("deleteUser", tok, 0, [id |-> id], 403) /\ UNCHANGED <<users, departments>>
       ELSE IF id = ""
       THEN Reply("deleteUser", tok, 0, [id |-> id], 400) /\ UNCHANGED <<users, departments>>
       ELSE IF id = v.userId
       THEN Reply("deleteUser", tok, 0, [id |-> id], 400) /\ UNCHANGED <<users, departments>>
       ELSE /\ departments' = pullFromAllDepartments(id)
            /\ users' = deleteUserDoc(id)
            /\ Reply("deleteUser", tok, 0, [id |-> id], 200)

\* a deleted user's token on the task, column and generator routes
DeleteUserInputs == {"adm", "root", ""}

NextDeleted ==
    \/ \E tok \in {jwtSign("root"), jwtSign("adm")}, id \in DeleteUserInputs :
          DeleteUser(tok, id)
    \/ \E tok \in {jwtSign("adm"), NoToken} : ProcessRecurring(tok)
    \/ \E id \in 1..MaxTasks : Update(jwtSign("adm"), id, [status |-> "done"])
    \/ \E body \in ColumnBodies : ColumnsPut(jwtSign("adm"), "d1", body)

SpecDeleted == InitRecur /\ [][NextDeleted]_vars


\* ------------------------------------------- schedule saves side by side
\* schedules route, PUT up to the findOne of the date
SchedulePutFind(tok, body) ==
    /\ RoomForRequest
    /\ UNCHANGED <<users, departments, columns, tasks, nextId, nextOid, now, calc,
                   schedules, config, invites, nextUid>>
    /\ IF ~Authenticated(tok)
       THEN Reply("saveSchedule", tok, 0, body, 401) /\ UNCHANGED inflight
       ELSE LET u == getUserFromRequest(tok) IN
            IF ~canEditSchedule(u.userId, u.isSuperUser)
            THEN Reply("saveSchedule", tok, 0, body, 403) /\ UNCHANGED inflight
            ELSE IF OrStr(body, "date", "") = "" \/ ~Has(body, "slots")
            THEN Reply("saveSchedule", tok, 0, body, 400) /\ UNCHANGED inflight
            ELSE /\ inflight' = inflight \cup
                       {[slot |-> freeSlot, op |-> "saveSchedule", tok |-> tok,
                         body |-> body,
                         existing |-> findSchedule(schedules, body.date) # 0]}
                 /\ UNCHANGED <<served, resp>>

\* schedules route, PUT from the updateOne or insertOne on
SchedulePutWrite(r) ==
    /\ r.op = "saveSchedule"
    /\ UNCHANGED <<users, departments, columns, tasks, nextId, nextOid, now, calc,
                   config, invites, nextUid>>
    /\ inflight' = inflight \ {r}
    /\ schedules' = IF r.existing
                    THEN updateSchedule(schedules, r.body, r.tok._id)
                    ELSE insertSchedule(schedules, r.body, r.tok._id)
    /\ Reply("saveSchedule", r.tok, 0, r.body, 200)

NextScheduleRace ==
    \/ \E tok \in {jwtSign("root"), jwtSign("mem"), NoToken}, body \in ScheduleBodies :
          SchedulePutFind(tok, body)
    \/ \E r \in inflight : SchedulePutWrite(r)

SpecScheduleRace == InitSchedule /\ [][NextScheduleRace]_vars


\* ================================================================= claims
\* the caller may mutate task t: superuser, admin of its department, or one
\* of its assignees
IsSuperUser(u) == u \in DOMAIN users /\ users[u].isSuperUser
IsDeptAdmin(u, d) == d \in DOMAIN departments /\ Includes(departments[d].adminIds, u)
IsTaskAssignee(u, t) == t.assigneeId = u \/ u \in t.assigneeIds
MayMutate(u, t) ==
    IsSuperUser(u) \/ IsDeptAdmin(u, t.departmentId) \/ IsTaskAssignee(u, t)

TaskMutations == {"update", "reorder", "archive", "restore", "permanentDelete",
                  "addAttachment", "removeAttachment", "addComment"}

\* the step serves a request for operation op on an existing task
Serves(ops) ==
    /\ served' = served + 1
    /\ resp'.op \in ops
    /\ resp'.id \in DOMAIN tasks

\* the request passes the handler's validation of its body and of the task
WellFormed(r) ==
    /\ r.op = "addAttachment" => (OrStr(r.body, "name", "") # "" /\ OrStr(r.body, "url", "") # "")
    /\ r.op = "addComment" => Trim(r.body.text) # ""
    /\ r.op = "restore" => tasks[r.id].status = "archived"

\* C1: a caller who is neither superuser, nor admin of the task's department,
\* nor an assignee of the task gets a permission error from every
\* task-mutating operation, and the task document is left unchanged.
C1_StrangerMutationDenied ==
    [][(/\ Serves(TaskMutations)
        /\ WellFormed(resp')
        /\ ~MayMutate(resp'.caller, tasks[resp'.id]))
       => (resp'.code = 403 /\ tasks' = tasks)]_vars

\* C2: archiving a task and restoring it right away leaves the task with the
\* status it had before the archive (the archive keeps that status in
\* previousStatus, the restore puts it back) and without previousStatus,
\* archivedAt and archivedBy.
C2_ArchiveRestoreRoundTrip ==
    [][/\ (Serves({"archive"}) /\ resp'.code = 200)
            => tasks'[resp'.id].previousStatus = tasks[resp'.id].status
       /\ (/\ resp.op = "archive" /\ resp.code = 200
           /\ Serves({"restore"}) /\ resp'.code = 200 /\ resp'.id = resp.id)
            => /\ tasks'[resp'.id].status = tasks[resp'.id].previousStatus
               /\ DOMAIN tasks'[resp'.id] \cap
                    {"previousStatus", "archivedAt", "archivedBy"} = {}]_vars

\* C7: a task is destroyed by a permanent delete only if its status is
\* 'archived' at the time of the request.
C7_PermanentDeleteOnlyArchived ==
    [][\A i \in DOMAIN tasks \ DOMAIN tasks' : tasks[i].status = "archived"]_vars

\* C8: every task the list operation returns to a caller who is not a
\* superuser belongs to a department where the caller is admin or member.
C8_ListScopedToDepartments ==
    (resp.op = "list" /\ resp.code = 200 /\ ~IsSuperUser(resp.caller))
        => \A i \in resp.data :
              tasks[i].departmentId \in getUserDepartments(resp.caller, FALSE)


MutableFields == {"title", "description", "priority", "assigneeId", "assigneeIds",
                  "dueDate", "labels", "subtasks", "estimatedHours", "loggedHours",
                  "blockedBy", "status"}
AssigneeOnly(u, t) ==
    IsTaskAssignee(u, t) /\ ~IsSuperUser(u) /\ ~IsDeptAdmin(u, t.departmentId)
\* the value the store holds after a field was set from the request
Stored(f, v) == IF f \in {"title", "description"} THEN Trim(v) ELSE v
Last(s) == s[Len(s)]

\* C3: one update request of an assignee-only caller that carries a new title
\* and a new status succeeds, leaves the stored title as it was and makes the
\* stored status the requested one.
C3_AssigneeTitleIgnoredStatusSet ==
    [][(/\ Serves({"update"})
        /\ Has(resp'.body, "title") /\ Has(resp'.body, "status")
        /\ AssigneeOnly(resp'.caller, tasks[resp'.id]))
       => /\ resp'.code = 200
          /\ tasks'[resp'.id].title = tasks[resp'.id].title
          /\ tasks'[resp'.id].status = resp'.body.status]_vars

\* an assignee-only caller has just sent a title that differs from the stored
\* one together with a status, and the request moved the task
C3_Witness ==
    /\ resp.op = "update" /\ resp.code = 200 /\ resp.id \in DOMAIN tasks
    /\ Has(resp.body, "title") /\ Has(resp.body, "status")
    /\ AssigneeOnly(resp.caller, tasks[resp.id])
    /\ Trim(resp.body.title) # tasks[resp.id].title
    /\ tasks[resp.id].status = resp.body.status
    /\ Last(tasks[resp.id].activityLog) = LogEntry(resp.caller, "moved")

\* C10: through update, a superuser or department admin who is not an assignee
\* changes every mutable field the request carries (logged hours included),
\* and an assignee-only caller changes nothing except status, subtasks and
\* logged hours.
C10_AdminAllFieldsAssigneeThree ==
    [][(Serves({"update"}) /\ resp'.code = 200)
       => LET t == tasks[resp'.id]
              t2 == tasks'[resp'.id]
              u == resp'.caller
          IN  /\ ((IsSuperUser(u) \/ IsDeptAdmin(u, t.departmentId))
                    /\ ~IsTaskAssignee(u, t))
                  => \A f \in DOMAIN resp'.body \cap MutableFields :
                        t2[f] = Stored(f, resp'.body[f])
              /\ AssigneeOnly(u, t)
                  => \A f \in MutableFields \ {"status", "subtasks", "loggedHours"} :
                        t2[f] = t[f]]_vars


\* C4: when the generator has just created an instance from a task and is
\* invoked again with no change to any task in between, the second invocation
\* creates no instance from that task.
C4_NoSecondInstancePerCompletion ==
    [][(/\ resp.op = "processRecurring" /\ resp.code = 200
        /\ served' = served + 1 /\ resp'.op = "processRecurring")
       => \A i \in DOMAIN tasks' \ DOMAIN tasks :
             tasks'[i].parentRecurringId \notin
                {tasks[j].parentRecurringId : j \in resp.data \cap DOMAIN tasks}]_vars

\* C5: the generator creates no instance from a task whose recurrence end
\* date is earlier than the next due date computed for that task.
C5_NoInstancePastEndDate ==
    [][\A i \in DOMAIN tasks' \ DOMAIN tasks :
          Has(tasks'[i], "parentRecurringId")
          => LET origin == tasks[tasks'[i].parentRecurringId]
                 endDate == EndDateOf(origin.recurrence)
             IN  ~(/\ endDate # NullNum
                   /\ endDate < calculateNextDueDate(dueDateOrNow(origin),
                                                     origin.recurrence.type))]_vars

\* the generator has run over a completed recurring task whose end date is
\* not before now but before its next due date, and has made no instance of it
C5_Witness ==
    /\ resp.op = "processRecurring" /\ resp.code = 200
    /\ \E o \in recurringTasks(tasks) :
          /\ EndDateOf(tasks[o].recurrence) # NullNum
          /\ EndDateOf(tasks[o].recurrence) <
                calculateNextDueDate(dueDateOrNow(tasks[o]), tasks[o].recurrence.type)
          /\ \A i \in DOMAIN tasks :
                Has(tasks[i], "parentRecurringId") => tasks[i].parentRecurringId # o

\* one calendar month after a date: the same day of the following month, or
\* that month's last day when it is shorter
AddCalendarMonth(n) ==
    LET c == Civil(n)
        y2 == IF c.m = 12 THEN c.y + 1 ELSE c.y
        m2 == IF c.m = 12 THEN 1 ELSE c.m + 1
    IN  MakeDate(y2, m2, IF c.d <= DaysInMonth(y2, m2) THEN c.d ELSE DaysInMonth(y2, m2))

\* C6: calculateNextDueDate returns the date plus 1 day for 'daily', plus 7
\* days for 'weekly', plus 14 days for 'biweekly', plus 1 calendar month for
\* 'monthly', and the date itself for every other type.
C6_NextDueDateOffsets ==
    calc.done =>
        calc.result = CASE calc.type = "daily" -> calc.date + 1
                        [] calc.type = "weekly" -> calc.date + 7
                        [] calc.type = "biweekly" -> calc.date + 14
                        [] calc.type = "monthly" -> AddCalendarMonth(calc.date)
                        [] OTHER -> calc.date


ColumnOps == {"columnsPut", "columnsDelete", "applyTemplate"}

\* C9: a superuser is permitted every operation on every department: a
\* request of a superuser to update or reset the columns of an existing
\* department, or to apply a template to it, is not refused for lack of
\* permission, also when the superuser is not an admin of the department.
C9_SuperUserNeverRefused ==
    (resp.op \in ColumnOps /\ IsSuperUser(resp.caller)) => resp.code # 403


\* the ids of the elements of an array of sub-documents
Ids(arr) == {arr[k].id : k \in 1..Len(arr)}
\* the element of the array that carries the id
ById(arr, elemId) == arr[CHOOSE k \in 1..Len(arr) : arr[k].id = elemId]

\* C11: an attachment leaves a task's attachment list only when the requester
\* is the user who uploaded it or a superuser; a delete sent by anybody else
\* leaves the list unchanged.
C11_AttachmentRemovedByUploaderOrSuperUser ==
    [][\A i \in DOMAIN tasks \cap DOMAIN tasks' :
          \A a \in Ids(tasks[i].attachments) \ Ids(tasks'[i].attachments) :
             \/ ById(tasks[i].attachments, a).uploadedBy = resp'.caller
             \/ IsSuperUser(resp'.caller)]_vars

\* C12: a comment leaves a task's comment list only when the requester is its
\* author or a superuser; a delete of an existing comment sent by anybody else
\* is answered with 403 and leaves the comment list unchanged.
C12_CommentRemovedByAuthorOrSuperUser ==
    [][/\ \A i \in DOMAIN tasks \cap DOMAIN tasks' :
            \A c \in Ids(tasks[i].comments) \ Ids(tasks'[i].comments) :
               \/ ById(tasks[i].comments, c).userId = resp'.caller
               \/ IsSuperUser(resp'.caller)
       /\ (/\ Serves({"deleteComment"})
           /\ resp'.body.commentId \in Ids(tasks[resp'.id].comments)
           /\ ById(tasks[resp'.id].comments, resp'.body.commentId).userId # resp'.caller
           /\ ~IsSuperUser(resp'.caller))
            => /\ resp'.code = 403
               /\ tasks'[resp'.id].comments = tasks[resp'.id].comments]_vars

\* a comment written by the department member is still there after the
\* department admin asked to delete it and was refused
C12_Witness ==
    /\ resp.op = "deleteComment" /\ resp.code = 403 /\ resp.caller = "adm"
    /\ resp.id \in DOMAIN tasks
    /\ \E k \in 1..Len(tasks[resp.id].comments) :
          /\ tasks[resp.id].comments[k].id = resp.body.commentId
          /\ tasks[resp.id].comments[k].userId = "mem"


ScheduleSaves == {"saveSchedule", "saveScheduleConfig"}

\* C13: a schedule save or a schedule-configuration save succeeds only for a
\* superuser or the user who is the schedule admin at the time of the
\* request; every other authenticated caller, department admins included,
\* gets 403 and neither a schedule nor a configuration document changes.
C13_ScheduleSaveOnlySuperUserOrScheduleAdmin ==
    [][(/\ served' = served + 1
        /\ resp'.op \in ScheduleSaves
        /\ resp'.caller # Null
        /\ ~IsSuperUser(resp'.caller)
        /\ resp'.caller # scheduleAdminId)
       => (resp'.code = 403 /\ schedules' = schedules /\ config' = config)]_vars

\* a department admin was refused a schedule save although a schedule admin
\* (somebody else) is designated and has saved a schedule
C13_Witness ==
    /\ resp.op = "saveSchedule" /\ resp.code = 403 /\ resp.caller = "adm"
    /\ scheduleAdminId = "mem"
    /\ \E d \in DOMAIN schedules : schedules[d].lastModifiedBy = "mem"


\* the operations of the endpoints that require a bearer token
TokenOps == {"createUser", "saveSchedule", "saveScheduleConfig", "setScheduleAdmin"}

\* C14: an endpoint that requires authentication answers a request without a
\* valid bearer token with 401, never with 403 or a success, and writes
\* nothing.
C14_NoTokenIs401 ==
    [][(/\ served' = served + 1
        /\ resp'.op \in TokenOps
        /\ resp'.caller = Null)
       => (/\ resp'.code = 401
           /\ UNCHANGED <<users, departments, columns, tasks, schedules, config, invites>>)]_vars

\* C16: no two user records have emails that are equal ignoring case, after
\* any sequence of admin user creations and invite signups, two requests for
\* the same email served at the same time included.
C16_EmailsUniqueIgnoringCase ==
    \A u1, u2 \in DOMAIN users :
        u1 # u2 => toLowerCase(users[u1].email) # toLowerCase(users[u2].email)


\* C15: in every reachable state the status of every task that is not
\* archived is the id of one of the columns of its department: of the
\* configured columns, or of the default columns when none are configured.
C15_StatusIsAColumn ==
    \A i \in DOMAIN tasks :
        tasks[i].status # "archived" =>
            \E k \in DOMAIN columnsOfDepartment(tasks[i].departmentId) :
                columnsOfDepartment(tasks[i].departmentId)[k].id = tasks[i].status


IsPrefix(s, t) == Len(s) <= Len(t) /\ \A k \in 1..Len(s) : t[k] = s[k]

C18_OrderNonNegative ==
    \A i \in DOMAIN tasks : tasks[i].order \in Nat


\* C19: the admin list of a department never holds the same user id twice,
\* after any sequence of add-admin and remove-admin requests; adding a user
\* who is an admin already leaves the list as it is.
C19_AdminListHasNoDuplicates ==
    /\ [](\A d \in DOMAIN departments :
            \A j, k \in 1..Len(departments[d].adminIds) :
                departments[d].adminIds[j] = departments[d].adminIds[k] => j = k)
    /\ [][(/\ served' = served + 1 /\ resp'.op = "addAdmin" /\ resp'.code = 200
           /\ resp'.id \in DOMAIN departments
           /\ Includes(departments[resp'.id].adminIds, resp'.body.userId))
          => departments' = departments]_vars

\* the admin of d1 added a second admin and then asked to be added again,
\* which was accepted: the list holds the two of them once each
C19_Witness ==
    /\ resp.op = "addAdmin" /\ resp.code = 200
    /\ resp.caller = "adm" /\ resp.body.userId = "adm" /\ resp.id = "d1"
    /\ departments["d1"].adminIds = <<"adm", "mem">>


\* the tasks a step of the generator has created
Generated == DOMAIN tasks' \ DOMAIN tasks

\* C20: every instance the generator creates has an order greater than the
\* order of every task that is in the 'todo' column of its department before
\* it, carries in parentRecurringId the id of the completed recurring task it
\* was copied from, and that task's recurrence.lastGenerated is stamped with
\* the time of the same invocation.
C20_InstanceOrderParentAndStamp ==
    [][(served' = served + 1 /\ resp'.op = "processRecurring") =>
        \A i \in Generated :
            LET inst == tasks'[i] IN
            /\ Has(inst, "parentRecurringId")
            /\ inst.parentRecurringId \in recurringTasks(tasks)
            /\ inst.title = tasks[inst.parentRecurringId].title
            /\ inst.dueDate = calculateNextDueDate(dueDateOrNow(tasks[inst.parentRecurringId]),
                                                   tasks[inst.parentRecurringId].recurrence.type)
            /\ \A j \in DOMAIN tasks :
                  (tasks[j].departmentId = inst.departmentId /\ tasks[j].status = "todo")
                      => inst.order > tasks[j].order
            /\ \A j \in Generated :
                  (j < i /\ tasks'[j].departmentId = inst.departmentId)
                      => inst.order > tasks'[j].order
            /\ Has(tasks'[inst.parentRecurringId].recurrence, "lastGenerated")
            /\ tasks'[inst.parentRecurringId].recurrence.lastGenerated = now]_vars

\* the generator has put a second instance of a task into a 'todo' column
\* that held the first one: the second has the higher order, and the origin
\* carries the stamp
C20_Witness ==
    /\ resp.op = "processRecurring" /\ resp.code = 200
    /\ \E o, i, j \in DOMAIN tasks :
          /\ Has(tasks[i], "parentRecurringId") /\ tasks[i].parentRecurringId = o
          /\ Has(tasks[j], "parentRecurringId") /\ tasks[j].parentRecurringId = o
          /\ j \in resp.data /\ i \notin resp.data
          /\ tasks[i].status = "todo" /\ tasks[j].status = "todo"
          /\ tasks[j].order > tasks[i].order
          /\ Has(tasks[o].recurrence, "lastGenerated")


\* C21: every instance the generator creates has the title, description,
\* priority, assignees and labels of the task it was generated from, and that
\* task's subtask titles in the same order, every subtask not completed.
C21_InstanceClonesOrigin ==
    [][(served' = served + 1 /\ resp'.op = "processRecurring") =>
        \A i \in Generated :
            LET inst == tasks'[i]
                origin == tasks[inst.parentRecurringId] IN
            /\ inst.title = origin.title
            /\ inst.description = origin.description
            /\ inst.priority = origin.priority
            /\ inst.assigneeId = origin.assigneeId
            /\ inst.assigneeIds = origin.assigneeIds
            /\ inst.labels = origin.labels
            /\ Len(inst.subtasks) = Len(origin.subtasks)
            /\ \A k \in 1..Len(origin.subtasks) :
                  /\ inst.subtasks[k].title = origin.subtasks[k].title
                  /\ inst.subtasks[k].completed = FALSE]_vars

\* an instance stands next to an origin whose subtask is completed: the
\* instance has the subtask, not completed
C21_Witness ==
    \E i \in DOMAIN tasks :
        /\ Has(tasks[i], "parentRecurringId")
        /\ i \in resp.data /\ resp.op = "processRecurring"
        /\ LET origin == tasks[tasks[i].parentRecurringId] IN
           /\ Len(origin.subtasks) = 1 /\ origin.subtasks[1].completed
           /\ Len(tasks[i].subtasks) = 1 /\ ~tasks[i].subtasks[1].completed
           /\ tasks[i].subtasks[1].title = origin.subtasks[1].title
           /\ tasks[i].assigneeId = "out"


\* the document without the fields the generator's stamp writes
WithoutStamp(doc) ==
    [f \in DOMAIN doc \ {"updatedAt"} |->
        IF f = "recurrence"
        THEN [g \in DOMAIN doc.recurrence \ {"lastGenerated"} |-> doc.recurrence[g]]
        ELSE doc[f]]

\* the tasks a step of the generator has generated an instance from
Origins == {tasks'[i].parentRecurringId : i \in Generated}

\* C22: an invocation of the generator removes no task and changes no field
\* of an existing task, except recurrence.lastGenerated and the update
\* timestamp of the tasks it has generated an instance from: status, due
\* date and order of an origin stay as they are.
C22_GeneratorOnlyStampsOrigins ==
    [][(served' = served + 1 /\ resp'.op = "processRecurring") =>
        /\ DOMAIN tasks \subseteq DOMAIN tasks'
        /\ \A i \in DOMAIN tasks :
              IF i \in Origins
              THEN /\ WithoutStamp(tasks'[i]) = WithoutStamp(tasks[i])
                   /\ tasks'[i].status = tasks[i].status
                   /\ tasks'[i].dueDate = tasks[i].dueDate
                   /\ tasks'[i].order = tasks[i].order
              ELSE tasks'[i] = tasks[i]]_vars

\* a day after the board was set up the generator has made an instance of a
\* completed task: the origin carries the stamp of that day and is still
\* 'done' with its due date and order
C22_Witness ==
    /\ resp.op = "processRecurring" /\ resp.code = 200 /\ now = 1
    /\ \E i \in resp.data :
          LET o == tasks[i].parentRecurringId IN
          /\ Has(tasks[o].recurrence, "lastGenerated")
          /\ tasks[o].recurrence.lastGenerated = 1
          /\ tasks[o].updatedAt = 1 /\ tasks[o].createdAt = 0
          /\ tasks[o].status = "done" /\ tasks[o].dueDate = 30 /\ tasks[o].order = 1


\* the fields the update requests of SpecRace set
RaceFields == {"title", "priority", "status"}
\* the update requests whose write a step carries out
Written == {r \in inflight \ inflight' : r.op = "update" /\ r.id \in DOMAIN tasks}

\* C23: when the write of a permitted update request is carried out, every
\* field the request sets is stored with the request's value, whatever other
\* requests were served since the handler read the task (of two requests that
\* set the same field the later write wins), and every field it does not set
\* keeps the value it had (of two requests that set disjoint fields both
\* changes are stored).
C23_ConcurrentUpdatesLastWriteWins ==
    [][\A r \in Written :
          r.canManage =>
            /\ \A f \in RaceFields \cap DOMAIN r.body :
                  tasks'[r.id][f] = Trim(r.body[f])
            /\ \A f \in RaceFields \ DOMAIN r.body :
                  tasks'[r.id][f] = tasks[r.id][f]]_vars


\* C24: the schedule-admin delegation names one user or nobody; it changes
\* only in a set-schedule-admin request of a superuser that succeeds; and
\* such a request of a superuser that names a user who does not exist is
\* answered with 404 and leaves the delegation as it is.
C24_ScheduleAdminDelegation ==
    /\ [](scheduleAdminId \in UserIds \cup {Null})
    /\ [][/\ scheduleAdminId' # scheduleAdminId
              => (/\ served' = served + 1
                  /\ resp'.op = "setScheduleAdmin" /\ resp'.code = 200
                  /\ IsSuperUser(resp'.caller))
          /\ (/\ served' = served + 1
              /\ resp'.op = "setScheduleAdmin"
              /\ IsSuperUser(resp'.caller)
              /\ OrStr(resp'.body, "userId", "") \notin DOMAIN users \cup {""})
              => (resp'.code = 404 /\ config' = config)]_vars

\* the superuser has named a schedule admin and then named a user who does
\* not exist: the answer is 404 and the first delegation stands
C24_Witness ==
    /\ resp.op = "setScheduleAdmin" /\ resp.code = 404 /\ resp.caller = "root"
    /\ resp.body.userId = "gone"
    /\ scheduleAdminId = "mem"
    /\ config["scheduleAdmin"].updatedBy = "root"


\* C25: an invite token creates at most one account, however the signup
\* requests are interleaved: every signup that creates an account marks the
\* invite used, so no signup creates an account with an invite that is
\* already marked used when the account is created.
C25_InviteCreatesOneAccount ==
    [][(/\ served' = served + 1
        /\ resp'.op = "signup" /\ resp'.code = 200
        /\ resp'.body.token \in DOMAIN invites)
       => ~invites[resp'.body.token].used]_vars

\* C26: a task carries the archive metadata (previousStatus, archivedAt,
\* archivedBy) exactly when its status is 'archived', after any sequence of
\* update, reorder, archive and restore requests.
ArchiveMetadata == {"previousStatus", "archivedAt", "archivedBy"}

C26_ArchiveMetadataIffArchived ==
    \A i \in DOMAIN tasks :
        /\ tasks[i].status = "archived" => ArchiveMetadata \subseteq DOMAIN tasks[i]
        /\ tasks[i].status # "archived" => ArchiveMetadata \cap DOMAIN tasks[i] = {}

\* C27: after a restore succeeds the task's status is not 'archived',
\* whatever requests came before it, a second archive of an archived task
\* included.
C27_RestoreLeavesArchive ==
    [][(/\ served' = served + 1
        /\ resp'.op = "restore" /\ resp'.code = 200)
       => tasks'[resp'.id].status # "archived"]_vars


\* C28: the update endpoint and the reorder endpoint permit a status change
\* for exactly the same callers: a request of either kind on an existing
\* task is served when the caller is a superuser, an admin of the task's
\* department, the task's single assignee or a member of its assigneeIds,
\* and is refused otherwise.
MayChangeStatus(userId, t) ==
    \/ canManageDepartment(userId, users[userId].isSuperUser, t.departmentId)
    \/ t.assigneeId = userId
    \/ userId \in t.assigneeIds

C28_UpdateAndReorderSameCallers ==
    [][(/\ served' = served + 1
        /\ resp'.op \in {"update", "reorder"}
        /\ resp'.code \in {200, 403})
       => (resp'.code = 200 <=> MayChangeStatus(resp'.caller, tasks[resp'.id]))]_vars


\* C29: once a user is deleted, every later request that carries that
\* user's token is rejected and writes nothing. (The claim names the
\* rejection as unauthenticated; the formula accepts any refusal status, so
\* a request it rules out is one the handler served.)
C29_DeletedUsersTokenRejected ==
    [][(/\ served' = served + 1
        /\ resp'.caller \in UserIds \ DOMAIN users)
       => (/\ resp'.code \in {401, 403}
           /\ UNCHANGED <<tasks, columns, users, departments>>)]_vars

\* C30: under any interleaving of save requests there is at most one
\* schedule document per date, and when a save completes, the slots stored
\* for its date are the slots it sent.
C30_OneSchedulePerDate ==
    /\ [](\A i, j \in 1..Len(schedules) :
             schedules[i].date = schedules[j].date => i = j)
    /\ [][(/\ served' = served + 1
           /\ resp'.op = "saveSchedule" /\ resp'.code = 200)
          => \A i \in 1..Len(schedules') :
                schedules'[i].date = resp'.body.date
                   => schedules'[i].slots = resp'.body.slots]_vars

====
